---- MODULE Spec2Model ----
(***************************************************************************)
(* The shared-memory probe of tests/integration/project/files/test_shm.c:  *)
(* main() opens-or-creates the POSIX shared-memory object "/foo", unlinks  *)
(* it, closes the descriptor and returns; each failing step is reported on *)
(* stderr and ends the process with its own exit status.                   *)
(*                                                                         *)
(* The model runs two instances of the program against one shared-memory   *)
(* namespace.  Each instance may be launched several times.  The platform  *)
(* calls shm_open and shm_unlink may fail for reasons of the platform's    *)
(* own (permissions, descriptor exhaustion).                               *)
(***************************************************************************)
EXTENDS Integers, Sequences, FiniteSets, TLC

\* The instances of the program that share the namespace.
Procs == {"p1", "p2"}

\* How many times each instance is launched at most.
MaxRuns == 2

VARIABLES
    shm,        \* the names bound in the shared-memory namespace
    pc,         \* pc[p]: the statement instance p executes next
    fd,         \* fd[p]: main's local fd (assigned by the shm_open statement)
    success,    \* success[p]: main's local success (assigned by shm_unlink)
    errno,      \* errno[p]: the error of the last failed call
    fds,        \* fds[p]: the descriptors open in the process
    stderr,     \* stderr[p]: the diagnostics written by the current run
    status,     \* status[p]: {} while running, {n} once exited with status n
    \* history of the current run of each instance
    trace,      \* trace[p]: the calls the run has made, in order
    nsBefore,   \* nsBefore[p]: the namespace when the run was launched
    nsAfter,    \* nsAfter[p]: the namespace when the run terminated
    faulted,    \* faulted[p]: a call of the run failed for a platform reason
    interfered, \* interfered[p]: another instance changed the namespace during the run
    rivals,     \* rivals[p]: the instances whose unlink succeeded between p's open and p's unlink
    runNo,      \* runNo[p]: how many runs of p have been launched
    \* history of the whole behaviour
    shm0,       \* the namespace in the initial state
    completed,  \* exit statuses of the terminated runs, in order of termination
    env         \* what has happened so far: "fault" (a platform failure), "overlap" (two runs at once)

vars == <<shm, pc, fd, success, errno, fds, stderr, status, trace, nsBefore,
          nsAfter, faulted, interfered, rivals, runNo, shm0, completed, env>>

----------------------------------------------------------------------------
(* The program's constants.                                                *)

\* shm_open ("/foo", ...)
OpenName == "/foo"

\* The mutated name: a typo in the second literal.
UnlinkNameTypo == "/bar"

\* shm_unlink ("/foo")
UnlinkName == "/foo"

\* The mutated flags: O_CREAT forgotten.
OFlagsNoCreat == {"O_RDONLY"}

\* The mutated flags: exclusive creation.
OFlagsExcl == {"O_RDONLY", "O_CREAT", "O_EXCL"}

\* O_RDONLY | O_CREAT
OFlags == {"O_RDONLY", "O_CREAT"}

\* exit(1), exit(2), return 0
ExitOpenFailure == 1
ExitUnlinkFailure == 2
ExitSuccess == 0

\* The mutated test: if (!fd)
OpenFailedNot(fdv) == fdv = 0

\* if (fd < 0)
OpenFailed(fdv) == fdv < 0

\* The mutated test: if (success > 0)
UnlinkFailedPositive(s) == s > 0

\* The mutated test: if (success <= 0)
UnlinkFailedLeq(s) == s <= 0

\* if (success < 0)
UnlinkFailed(s) == s < 0

\* fprintf (stderr, "Failed to open shm: %s\n", strerror (errno))
OpenDiagnostic(e) == [text |-> "Failed to open shm", reason |-> e]

\* fprintf (stderr, "Failed to close shm: %s\n", strerror (errno))
UnlinkDiagnostic(e) == [text |-> "Failed to close shm", reason |-> e]

----------------------------------------------------------------------------
(* The platform: descriptors and the shared-memory namespace.              *)

\* stdin, stdout, stderr: open in every process at launch.
StdFds == {0, 1, 2}

\* A call that allocates a descriptor returns the lowest one not in use.
LowestUnused(open) ==
    CHOOSE n \in 0..Cardinality(open) :
        n \notin open /\ \A m \in 0..(n - 1) : m \in open

\* The reasons for which the platform itself may refuse a call.
OpenFaults == {"EACCES", "EMFILE"}
UnlinkFaults == {"EACCES"}

\* The outcomes shm_open(name, flags) may have with namespace ns: without
\* O_CREAT an absent name is ENOENT, with O_CREAT | O_EXCL a present name is
\* EEXIST; otherwise the call succeeds (creating the name when absent) unless
\* the platform refuses it.
ShmOpenOutcomes(ns, name, flags) ==
    IF name \notin ns /\ "O_CREAT" \notin flags
    THEN {[ok |-> FALSE, err |-> "ENOENT"]}
    ELSE IF name \in ns /\ {"O_CREAT", "O_EXCL"} \subseteq flags
    THEN {[ok |-> FALSE, err |-> "EEXIST"]}
    ELSE {[ok |-> TRUE, err |-> "0"]}
         \cup {[ok |-> FALSE, err |-> e] : e \in OpenFaults}

\* The outcomes shm_unlink(name) may have with namespace ns: an absent name is
\* ENOENT; a present name is removed unless the platform refuses the call.
ShmUnlinkOutcomes(ns, name) ==
    IF name \notin ns
    THEN {[ok |-> FALSE, err |-> "ENOENT"]}
    ELSE {[ok |-> TRUE, err |-> "0"]}
         \cup {[ok |-> FALSE, err |-> e] : e \in UnlinkFaults}

----------------------------------------------------------------------------
(* Helpers on the state.                                                   *)

Running(p) == pc[p] \notin {"idle", "done"}

Terminated(p) == pc[p] = "done"

\* interfered after instance p has changed the namespace (or not).
Disturb(p, changed) ==
    [q \in Procs |->
        IF q # p /\ Running(q) /\ changed THEN TRUE ELSE interfered[q]]

\* How often event e occurs in sequence s.
Count(s, e) == Cardinality({i \in 1..Len(s) : s[i] = e})

\* The first position of event e in s (0 when absent).
Pos(s, e) ==
    IF \E i \in 1..Len(s) : s[i] = e
    THEN CHOOSE i \in 1..Len(s) : s[i] = e /\ \A j \in 1..(i - 1) : s[j] # e
    ELSE 0

OpenEvents == {"open:created", "open:existing", "open:fail"}
UnlinkEvents == {"unlink:ok", "unlink:fail"}

Opens(s) == Cardinality({i \in 1..Len(s) : s[i] \in OpenEvents})
Unlinks(s) == Cardinality({i \in 1..Len(s) : s[i] \in UnlinkEvents})

OpenSucceeded(p) ==
    \E i \in 1..Len(trace[p]) : trace[p][i] \in {"open:created", "open:existing"}

----------------------------------------------------------------------------
(* The initial state: no instance launched; the name may exist already.    *)

Init ==
    /\ shm \in {{}, {OpenName}}
    /\ shm0 = shm
    /\ pc = [p \in Procs |-> "idle"]
    /\ fd = [p \in Procs |-> 0]
    /\ success = [p \in Procs |-> 0]
    /\ errno = [p \in Procs |-> "0"]
    /\ fds = [p \in Procs |-> StdFds]
    /\ stderr = [p \in Procs |-> <<>>]
    /\ status = [p \in Procs |-> {}]
    /\ trace = [p \in Procs |-> <<>>]
    /\ nsBefore = [p \in Procs |-> {}]
    /\ nsAfter = [p \in Procs |-> {}]
    /\ faulted = [p \in Procs |-> FALSE]
    /\ interfered = [p \in Procs |-> FALSE]
    /\ rivals = [p \in Procs |-> {}]
    /\ runNo = [p \in Procs |-> 0]
    /\ completed = <<>>
    /\ env = {}

----------------------------------------------------------------------------
(* The actions: the launch of a process and the statements of main.        *)

\* The process is launched: main is entered with fresh locals, the standard
\* descriptors open and nothing written.  (fd and success do not exist before
\* their statements run; 0 stands for that and is never read.)
start(p) ==
    /\ pc[p] \in {"idle", "done"}
    /\ runNo[p] < MaxRuns
    /\ pc' = [pc EXCEPT ![p] = "shm_open"]
    /\ fd' = [fd EXCEPT ![p] = 0]
    /\ success' = [success EXCEPT ![p] = 0]
    /\ errno' = [errno EXCEPT ![p] = "0"]
    /\ fds' = [fds EXCEPT ![p] = StdFds]
    /\ stderr' = [stderr EXCEPT ![p] = <<>>]
    /\ status' = [status EXCEPT ![p] = {}]
    /\ trace' = [trace EXCEPT ![p] = <<>>]
    /\ nsBefore' = [nsBefore EXCEPT ![p] = shm]
    /\ nsAfter' = [nsAfter EXCEPT ![p] = {}]
    /\ faulted' = [faulted EXCEPT ![p] = FALSE]
    /\ interfered' = [interfered EXCEPT ![p] = FALSE]
    /\ rivals' = [rivals EXCEPT ![p] = {}]
    /\ runNo' = [runNo EXCEPT ![p] = @ + 1]
    /\ env' = IF \E q \in Procs \ {p} : Running(q) THEN env \cup {"overlap"} ELSE env
    /\ UNCHANGED <<shm, shm0, completed>>

\* int fd = shm_open ("/foo", O_RDONLY | O_CREAT, S_IRWXU); if (fd < 0)
shm_open(p) ==
    /\ pc[p] = "shm_open"
    /\ \E r \in ShmOpenOutcomes(shm, OpenName, OFlags) :
        LET ret == IF r.ok THEN LowestUnused(fds[p]) ELSE -1
            ev == IF ~r.ok THEN "open:fail"
                  ELSE IF OpenName \in shm THEN "open:existing" ELSE "open:created"
            fault == ~r.ok /\ r.err \in OpenFaults
        IN  /\ fd' = [fd EXCEPT ![p] = ret]
            /\ fds' = [fds EXCEPT ![p] = IF r.ok THEN @ \cup {ret} ELSE @]
            /\ errno' = [errno EXCEPT ![p] = IF r.ok THEN @ ELSE r.err]
            /\ shm' = IF r.ok THEN shm \cup {OpenName} ELSE shm
            /\ pc' = [pc EXCEPT ![p] = IF OpenFailed(ret) THEN "fprintf_open" ELSE "shm_unlink"]
            /\ trace' = [trace EXCEPT ![p] = Append(@, ev)]
            /\ faulted' = [faulted EXCEPT ![p] = @ \/ fault]
            /\ env' = IF fault THEN env \cup {"fault"} ELSE env
            /\ interfered' = Disturb(p, r.ok /\ OpenName \notin shm)
            /\ rivals' = [rivals EXCEPT ![p] = {}]
    /\ UNCHANGED <<success, stderr, status, nsBefore, nsAfter, runNo, shm0, completed>>

\* fprintf (stderr, "Failed to open shm: %s\n", strerror (errno));
fprintf_open(p) ==
    /\ pc[p] = "fprintf_open"
    /\ stderr' = [stderr EXCEPT ![p] = Append(@, OpenDiagnostic(errno[p]))]
    /\ trace' = [trace EXCEPT ![p] = Append(@, "stderr")]
    /\ pc' = [pc EXCEPT ![p] = "exit_1"]
    /\ UNCHANGED <<shm, fd, success, errno, fds, status, nsBefore, nsAfter,
                   faulted, interfered, rivals, runNo, shm0, completed, env>>

\* exit (code), or return code from main: the process terminates.
Exit(p, code) ==
    /\ status' = [status EXCEPT ![p] = {code}]
    /\ pc' = [pc EXCEPT ![p] = "done"]
    /\ trace' = [trace EXCEPT ![p] = Append(@, "exit")]
    /\ nsAfter' = [nsAfter EXCEPT ![p] = shm]
    /\ completed' = Append(completed, code)
    /\ UNCHANGED <<shm, fd, success, errno, fds, stderr, nsBefore, faulted,
                   interfered, rivals, runNo, shm0, env>>

\* exit(1);
exit_1(p) ==
    /\ pc[p] = "exit_1"
    /\ Exit(p, ExitOpenFailure)

\* The mutated statement: the unlink is tried again instead of exiting.
shm_unlink_retry(p) ==
    /\ pc[p] = "shm_unlink"
    /\ \E r \in ShmUnlinkOutcomes(shm, UnlinkName) :
        LET ret == IF r.ok THEN 0 ELSE -1
            fault == ~r.ok /\ r.err \in UnlinkFaults
        IN  /\ success' = [success EXCEPT ![p] = ret]
            /\ errno' = [errno EXCEPT ![p] = IF r.ok THEN @ ELSE r.err]
            /\ shm' = IF r.ok THEN shm \ {UnlinkName} ELSE shm
            /\ pc' = [pc EXCEPT ![p] = IF UnlinkFailed(ret) THEN "shm_unlink" ELSE "close"]
            /\ trace' = [trace EXCEPT ![p] = Append(@, IF r.ok THEN "unlink:ok" ELSE "unlink:fail")]
            /\ faulted' = [faulted EXCEPT ![p] = @ \/ fault]
            /\ env' = IF fault THEN env \cup {"fault"} ELSE env
            /\ interfered' = Disturb(p, r.ok)
            /\ rivals' = [q \in Procs |->
                            IF q # p /\ pc[q] = "shm_unlink" /\ r.ok
                            THEN rivals[q] \cup {p} ELSE rivals[q]]
    /\ UNCHANGED <<fd, fds, stderr, status, nsBefore, nsAfter, runNo, shm0, completed>>

\* int success = shm_unlink ("/foo"); if (success < 0)
shm_unlink(p) ==
    /\ pc[p] = "shm_unlink"
    /\ \E r \in ShmUnlinkOutcomes(shm, UnlinkName) :
        LET ret == IF r.ok THEN 0 ELSE -1
            fault == ~r.ok /\ r.err \in UnlinkFaults
        IN  /\ success' = [success EXCEPT ![p] = ret]
            /\ errno' = [errno EXCEPT ![p] = IF r.ok THEN @ ELSE r.err]
            /\ shm' = IF r.ok THEN shm \ {UnlinkName} ELSE shm
            /\ pc' = [pc EXCEPT ![p] = IF UnlinkFailed(ret) THEN "fprintf_unlink" ELSE "close"]
            /\ trace' = [trace EXCEPT ![p] = Append(@, IF r.ok THEN "unlink:ok" ELSE "unlink:fail")]
            /\ faulted' = [faulted EXCEPT ![p] = @ \/ fault]
            /\ env' = IF fault THEN env \cup {"fault"} ELSE env
            /\ interfered' = Disturb(p, r.ok)
            /\ rivals' = [q \in Procs |->
                            IF q # p /\ pc[q] = "shm_unlink" /\ r.ok
                            THEN rivals[q] \cup {p} ELSE rivals[q]]
    /\ UNCHANGED <<fd, fds, stderr, status, nsBefore, nsAfter, runNo, shm0, completed>>

\* The mutated statement: the failure is not reported.
fprintf_unlink_silent(p) ==
    /\ pc[p] = "fprintf_unlink"
    /\ pc' = [pc EXCEPT ![p] = "exit_2"]
    /\ UNCHANGED <<shm, fd, success, errno, fds, stderr, status, trace, nsBefore, nsAfter,
                   faulted, interfered, rivals, runNo, shm0, completed, env>>

\* fprintf (stderr, "Failed to close shm: %s\n", strerror (errno));
fprintf_unlink(p) ==
    /\ pc[p] = "fprintf_unlink"
    /\ stderr' = [stderr EXCEPT ![p] = Append(@, UnlinkDiagnostic(errno[p]))]
    /\ trace' = [trace EXCEPT ![p] = Append(@, "stderr")]
    /\ pc' = [pc EXCEPT ![p] = "exit_2"]
    /\ UNCHANGED <<shm, fd, success, errno, fds, status, nsBefore, nsAfter,
                   faulted, interfered, rivals, runNo, shm0, completed, env>>

\* exit(2);
exit_2(p) ==
    /\ pc[p] = "exit_2"
    /\ Exit(p, ExitUnlinkFailure)

\* The mutated statement: close (fd) before the unlink was checked, so that
\* the failure path has closed the descriptor too.
close_always(p) ==
    /\ pc[p] \in {"close", "exit_2"}
    /\ fd[p] \in fds[p]
    /\ fds' = [fds EXCEPT ![p] = @ \ {fd[p]}]
    /\ trace' = [trace EXCEPT ![p] = Append(@, "close")]
    /\ pc' = [pc EXCEPT ![p] = IF pc[p] = "close" THEN "return_0" ELSE "exit_2"]
    /\ UNCHANGED <<shm, fd, success, errno, stderr, status, nsBefore, nsAfter,
                   faulted, interfered, rivals, runNo, shm0, completed, env>>

\* close (fd);
close(p) ==
    /\ pc[p] = "close"
    /\ fds' = [fds EXCEPT ![p] = @ \ {fd[p]}]
    /\ trace' = [trace EXCEPT ![p] = Append(@, "close")]
    /\ pc' = [pc EXCEPT ![p] = "return_0"]
    /\ UNCHANGED <<shm, fd, success, errno, stderr, status, nsBefore, nsAfter,
                   faulted, interfered, rivals, runNo, shm0, completed, env>>

\* return 0;
return_0(p) ==
    /\ pc[p] = "return_0"
    /\ Exit(p, ExitSuccess)

\* int main (): one statement of the program.
main(p) ==
    \/ shm_open(p)
    \/ fprintf_open(p)
    \/ exit_1(p)
    \/ shm_unlink(p)
    \/ fprintf_unlink(p)
    \/ exit_2(p)
    \/ close(p)
    \/ return_0(p)

Next == \E p \in Procs : start(p) \/ main(p)

Spec == Init /\ [][Next]_vars

\* A launched process runs on: its calls return and it is scheduled again.
FairSpec == Spec /\ \A p \in Procs : WF_vars(main(p))

----------------------------------------------------------------------------
(* The properties.                                                         *)

In(s, e) == \E i \in 1..Len(s) : s[i] = e

\* The run of p met no platform failure and no other instance changed the
\* namespace while it ran.
Clean(p) == ~faulted[p] /\ ~interfered[p]

Failed(p) == status[p] = {ExitOpenFailure} \/ status[p] = {ExitUnlinkFailure}

\* C1: once the open-or-create step of a run has failed, the run makes no
\* unlink attempt, only the report and exit(1) remain to be executed, and
\* the run's exit status, once it has one, is 1.
C1_OpenFailureExits1 ==
    \A p \in Procs :
        In(trace[p], "open:fail") =>
            /\ Unlinks(trace[p]) = 0
            /\ pc[p] \in {"fprintf_open", "exit_1", "done"}
            /\ Terminated(p) => status[p] = {ExitOpenFailure}

\* A run that ended with status 1 after its open failed.
C1_Witness ==
    \E p \in Procs :
        /\ Terminated(p)
        /\ status[p] = {ExitOpenFailure}
        /\ trace[p] = <<"open:fail", "stderr", "exit">>

\* C2: a terminated run has exit status 2 exactly when its open succeeded
\* and its unlink failed; after such a failure only the report and exit(2)
\* remain to be executed.
C2_UnlinkFailureExits2 ==
    \A p \in Procs :
        /\ Terminated(p) =>
            (status[p] = {ExitUnlinkFailure}
                <=> (OpenSucceeded(p) /\ In(trace[p], "unlink:fail")))
        /\ (OpenSucceeded(p) /\ In(trace[p], "unlink:fail")) =>
            pc[p] \in {"fprintf_unlink", "exit_2", "done"}

\* A run that ended with status 2 because the other instance removed the
\* name between the run's open and its unlink (not-found).
C2_Witness ==
    \E p \in Procs :
        /\ Terminated(p)
        /\ status[p] = {ExitUnlinkFailure}
        /\ errno[p] = "ENOENT"
        /\ rivals[p] # {}
        /\ ~faulted[p]

\* C3: a run launched with the name absent, that met no platform failure and
\* no interference, ends with status 0 and the name absent; and as long as no
\* platform failure occurred and no two runs overlapped, starting from an
\* empty namespace, every run that has terminated ended with status 0.
C3_FreshNameSucceeds ==
    /\ \A p \in Procs :
        (Terminated(p) /\ Clean(p) /\ OpenName \notin nsBefore[p]) =>
            (status[p] = {ExitSuccess} /\ OpenName \notin nsAfter[p])
    /\ (shm0 = {} /\ env = {}) =>
        /\ \A i \in 1..Len(completed) : completed[i] = ExitSuccess
        /\ (\A p \in Procs : ~Running(p)) => shm = {}

\* Three runs one after another on the initially absent name, all ended.
C3_Witness ==
    /\ shm0 = {}
    /\ env = {}
    /\ Len(completed) >= 3
    /\ \A p \in Procs : runNo[p] >= 1 /\ Terminated(p)

\* C4: in every terminal state reached after a successful open, the probe
\* has closed the descriptor the open returned.
C4_DescriptorAlwaysClosed ==
    \A p \in Procs :
        (Terminated(p) /\ OpenSucceeded(p)) =>
            (In(trace[p], "close") /\ fd[p] \notin fds[p])

\* C5: close is called at most once, only after a successful unlink and only
\* on the path that ends with status 0, where it is called exactly once; a run
\* that ends with status 1 or 2 never called close, and a run that ends with
\* status 2 terminates with the descriptor of its open still open.
C5_CloseOnlyOnSuccess ==
    \A p \in Procs :
        LET t == trace[p] IN
        /\ Count(t, "close") <= 1
        /\ In(t, "close") =>
            /\ In(t, "unlink:ok")
            /\ Pos(t, "unlink:ok") < Pos(t, "close")
            /\ pc[p] \in {"return_0", "done"}
        /\ Terminated(p) =>
            /\ status[p] = {ExitSuccess} =>
                (Count(t, "close") = 1 /\ fd[p] \notin fds[p])
            /\ Failed(p) => ~In(t, "close")
            /\ status[p] = {ExitUnlinkFailure} =>
                (OpenSucceeded(p) /\ fd[p] \in fds[p] /\ fd[p] \notin StdFds)

\* A run that ended with status 2 and its descriptor still open.
C5_Witness ==
    \E p \in Procs :
        /\ Terminated(p)
        /\ status[p] = {ExitUnlinkFailure}
        /\ fd[p] \in fds[p]
        /\ ~In(trace[p], "close")

\* C6 as claimed: whenever a run ends with status 1 or 2, the namespace holds
\* the name after the run if and only if it held it before the run.
C6_NoPartialFailure ==
    \A p \in Procs :
        (Terminated(p) /\ Failed(p)) =>
            (OpenName \in nsAfter[p] <=> OpenName \in nsBefore[p])

\* C6 as amended: a run that ends with status 1 has itself neither created
\* nor removed the name (without interference the namespace is as before);
\* a run that ends with status 2 has removed nothing, and without
\* interference the name is present after it, also when the run's own open
\* created it.
C6_FailedRunFrame ==
    \A p \in Procs :
        Terminated(p) =>
            /\ status[p] = {ExitOpenFailure} =>
                /\ ~In(trace[p], "open:created")
                /\ ~In(trace[p], "unlink:ok")
                /\ ~interfered[p] => nsAfter[p] = nsBefore[p]
            /\ status[p] = {ExitUnlinkFailure} =>
                /\ ~In(trace[p], "unlink:ok")
                /\ ~interfered[p] => OpenName \in nsAfter[p]

\* A run that ended with status 2 and left behind the entry it created.
C6_Witness ==
    \E p \in Procs :
        /\ Terminated(p)
        /\ status[p] = {ExitUnlinkFailure}
        /\ ~interfered[p]
        /\ In(trace[p], "open:created")
        /\ OpenName \notin nsBefore[p]
        /\ OpenName \in nsAfter[p]

\* C7: a run writes at most one diagnostic; the diagnostic directly follows
\* the failing call, names that call and carries its error; a failed call is
\* reported before the run goes on to exit; and a terminated run has written
\* a diagnostic exactly when its status is 1 or 2, directly before the exit.
C7_FailuresReported ==
    \A p \in Procs :
        LET t == trace[p]
            i == Pos(t, "stderr")
        IN
        /\ Len(stderr[p]) <= 1
        /\ Count(t, "stderr") = Len(stderr[p])
        /\ Len(stderr[p]) = 1 =>
            /\ i > 1
            /\ t[i - 1] \in {"open:fail", "unlink:fail"}
            /\ t[i - 1] = "open:fail" => stderr[p][1] = OpenDiagnostic(errno[p])
            /\ t[i - 1] = "unlink:fail" => stderr[p][1] = UnlinkDiagnostic(errno[p])
            /\ errno[p] # "0"
        /\ ((In(t, "open:fail") \/ In(t, "unlink:fail"))
                /\ pc[p] \in {"exit_1", "exit_2", "close", "return_0", "done"}) =>
            Len(stderr[p]) = 1
        /\ Terminated(p) =>
            /\ Len(stderr[p]) = 1 <=> Failed(p)
            /\ status[p] = {ExitSuccess} => stderr[p] = <<>>
            /\ Failed(p) => (i = Len(t) - 1 /\ t[Len(t)] = "exit")

\* A run that ended with status 2 and the unlink diagnostic written.
C7_Witness ==
    \E p \in Procs :
        /\ Terminated(p)
        /\ status[p] = {ExitUnlinkFailure}
        /\ stderr[p] = <<UnlinkDiagnostic("ENOENT")>>
        /\ trace[p] = <<"open:existing", "unlink:fail", "stderr", "exit">>

\* What holds of every run at every moment: one open and one unlink at most,
\* nothing but the report and the exit after a failed call, and one of the
\* three outcomes once terminated.
AtMostOnce(p) ==
    LET t == trace[p] IN
    /\ Opens(t) <= 1
    /\ Unlinks(t) <= 1
    /\ \A j \in 1..Len(t) :
        t[j] \in {"open:fail", "unlink:fail"} =>
            \A k \in (j + 1)..Len(t) : t[k] \in {"stderr", "exit"}
    /\ Terminated(p) =>
        /\ Count(t, "exit") = 1
        /\ t[Len(t)] = "exit"
        /\ \/ status[p] = {ExitSuccess}
           \/ status[p] = {ExitOpenFailure}
           \/ status[p] = {ExitUnlinkFailure}
        /\ status[p] = {ExitSuccess} <=> In(t, "unlink:ok")
        /\ status[p] = {ExitOpenFailure} <=> In(t, "open:fail")
        /\ status[p] = {ExitUnlinkFailure} <=> In(t, "unlink:fail")
    /\ Running(p) => status[p] = {}

\* C8: every launched run terminates, in exactly one of the outcomes 0, 1
\* and 2, and within a run the open and the unlink are each attempted at
\* most once, with no call after the first failing one.
C8_TerminatesOnce ==
    /\ \A p \in Procs : Running(p) ~> Terminated(p)
    /\ [](\A p \in Procs : AtMostOnce(p))

\* A run that has terminated with status 2 after one open and one unlink.
C8_Witness ==
    \E p \in Procs :
        /\ Terminated(p)
        /\ status[p] = {ExitUnlinkFailure}
        /\ Opens(trace[p]) = 1
        /\ Unlinks(trace[p]) = 1

\* C9: with the name initially absent, no platform failure, and each of the
\* two instances run once, in any interleaving: no instance exits with 1; an
\* instance exits with 2 only if the other instance's unlink succeeded
\* between its open and its unlink; and once both have terminated, one of
\* them has exited with 0 and the name is absent.
C9_TwoInstances ==
    (shm0 = {} /\ "fault" \notin env /\ \A p \in Procs : runNo[p] <= 1) =>
        /\ \A p \in Procs : status[p] # {ExitOpenFailure}
        /\ \A p \in Procs : ~In(trace[p], "open:fail")
        /\ \A p \in Procs :
            (In(trace[p], "unlink:fail") \/ status[p] = {ExitUnlinkFailure}) =>
                rivals[p] = Procs \ {p}
        /\ (\A p \in Procs : Terminated(p)) =>
            /\ \E p \in Procs : status[p] = {ExitSuccess}
            /\ shm = {}

\* Both instances ran at once and terminated, one of them with status 2.
C9_Witness ==
    /\ shm0 = {}
    /\ env = {"overlap"}
    /\ \A p \in Procs : runNo[p] = 1 /\ Terminated(p)
    /\ \E p \in Procs : status[p] = {ExitUnlinkFailure}
    /\ \E p \in Procs : status[p] = {ExitSuccess}

\* C10: the open never fails because the name exists (every failed open is a
\* platform failure, none is EEXIST), and a run without platform failure and
\* interference ends with status 0 and the name absent, whether or not the
\* name was present when it was launched.
C10_ExistingNameOpened ==
    \A p \in Procs :
        /\ In(trace[p], "open:fail") => (faulted[p] /\ errno[p] \in OpenFaults)
        /\ (OpenName \in nsBefore[p] /\ ~interfered[p] /\ ~faulted[p]
                /\ Opens(trace[p]) = 1) => In(trace[p], "open:existing")
        /\ (Terminated(p) /\ Clean(p)) =>
            (status[p] = {ExitSuccess} /\ OpenName \notin nsAfter[p])

\* The first run of all found the name present, although no probe had
\* created it, and removed it.
C10_Witness ==
    /\ shm0 = {OpenName}
    /\ completed = <<ExitSuccess>>
    /\ shm = {}
    /\ \E p \in Procs :
        /\ Terminated(p)
        /\ Clean(p)
        /\ OpenName \in nsBefore[p]
        /\ trace[p] = <<"open:existing", "unlink:ok", "close", "exit">>

====
